---- MODULE Spec2Model ----
(***************************************************************************)
(* scripts/anonymize-snapshot.py : anonymize_json.                         *)
(*                                                                         *)
(* A JSON document is rewritten in two passes: collect_identifiers walks   *)
(* the tree and fills three mapping tables, replace_identifiers rebuilds   *)
(* the tree from them.  Strings are sequences of one-character strings, so *)
(* that split, isdigit, the substring test, reversal and replace are       *)
(* computed the way Python computes them.                                  *)
(***************************************************************************)
EXTENDS Integers, Sequences, FiniteSets, TLC

VARIABLES
  data,                    \* the document handed to anonymize_json
  pc,                      \* "collect", "rewrite", "done" or "error" (an exception left anonymize_json)
  queue,                   \* dict nodes of data in the order collect_identifiers visits them (paths)
  ci,                      \* position of the next node of queue to visit
  name_mapping,            \* real name -> fake name
  student_number_mapping,  \* real student number -> reversed number
  student_id_mapping,      \* real studentId -> fake digit string
  used_names,              \* fake names handed out by generate_fake_name
  out,                     \* the document anonymize_json returned (Null before it returns)
  run,                     \* 1: the first run, 2: the run over the first run's output
  out1                     \* what the first run returned, kept for the second run

vars == <<data, pc, queue, ci, name_mapping, student_number_mapping,
          student_id_mapping, used_names, out, run, out1>>

----------------------------------------------------------------------------
(* Bounds of the model *)

\* number of records in the generated documents' "items" list
MaxItems == 2
\* FIRST_NAMES and LAST_NAMES are cut to their first NFirst / NLast entries,
\* so that a run can exhaust the pool and reach the numeric-suffix fallback
NFirst == 1
NLast == 1

----------------------------------------------------------------------------
(* Program constants *)

STUDENT_DOMAIN == <<"@", "g", "a", "p", "p", "s", ".", "y", "r", "d", "s", "b", ".", "c", "a">>
TEACHER_EMAIL == <<"s", "t", "e", "w", "a", "r", "t", ".", "c", "h", "a", "n", "@", "g", "a", "p", "p", "s", ".", "y", "r", "d", "s", "b", ".", "c", "a">>
TEACHER_PLACEHOLDER_EMAIL == <<"d", "e", "v", ".", "c", "o", "d", "e", "p", "e", "t", "@", "g", "m", "a", "i", "l", ".", "c", "o", "m">>
TEACHER_NAME == <<"S", "t", "e", "w", "a", "r", "t", " ", "C", "h", "a", "n">>
TEST_TEACHER == <<"T", "e", "s", "t", " ", "T", "e", "a", "c", "h", "e", "r">>
TEACHER_PLACEHOLDER_NAME == <<"D", "e", "v", " ", "C", "o", "d", "e", "P", "e", "t">>
CLASSROOM_HOST == <<"c", "l", "a", "s", "s", "r", "o", "o", "m", ".", "g", "o", "o", "g", "l", "e", ".", "c", "o", "m">>
FORMS_HOST == <<"d", "o", "c", "s", ".", "g", "o", "o", "g", "l", "e", ".", "c", "o", "m", "/", "f", "o", "r", "m", "s">>
SHEETS_HOST == <<"d", "o", "c", "s", ".", "g", "o", "o", "g", "l", "e", ".", "c", "o", "m", "/", "s", "p", "r", "e", "a", "d", "s", "h", "e", "e", "t", "s">>
USERCONTENT_HOST == <<"g", "o", "o", "g", "l", "e", "u", "s", "e", "r", "c", "o", "n", "t", "e", "n", "t", ".", "c", "o", "m">>
THUMB_PREFIX == <<"/", "/", "l", "h">>
CLASSROOM_PLACEHOLDER == <<"h", "t", "t", "p", "s", ":", "/", "/", "c", "l", "a", "s", "s", "r", "o", "o", "m", ".", "e", "x", "a", "m", "p", "l", "e", ".", "c", "o", "m", "/", "p", "l", "a", "c", "e", "h", "o", "l", "d", "e", "r">>
FORMS_PLACEHOLDER == <<"h", "t", "t", "p", "s", ":", "/", "/", "f", "o", "r", "m", "s", ".", "e", "x", "a", "m", "p", "l", "e", ".", "c", "o", "m", "/", "p", "l", "a", "c", "e", "h", "o", "l", "d", "e", "r">>
SHEETS_PLACEHOLDER == <<"h", "t", "t", "p", "s", ":", "/", "/", "s", "h", "e", "e", "t", "s", ".", "e", "x", "a", "m", "p", "l", "e", ".", "c", "o", "m", "/", "p", "l", "a", "c", "e", "h", "o", "l", "d", "e", "r">>
CDN_PLACEHOLDER == <<"h", "t", "t", "p", "s", ":", "/", "/", "c", "d", "n", ".", "e", "x", "a", "m", "p", "l", "e", ".", "c", "o", "m", "/", "p", "l", "a", "c", "e", "h", "o", "l", "d", "e", "r", ".", "p", "n", "g">>
QUIZ_FORM_PREFIX == <<"q", "u", "i", "z", "_", "f", "o", "r", "m", "_">>
SAMPLE_QUIZ == <<"S", "a", "m", "p", "l", "e", " ", "Q", "u", "i", "z">>
EXAMPLE_DOMAIN == <<"@", "e", "x", "a", "m", "p", "l", "e", ".", "c", "o", "m">>
DEFAULT_UPDATED_AT == <<"2", "0", "2", "5", "-", "0", "1", "-", "1", "5", "T", "1", "2", ":", "0", "0", ":", "0", "0", ".", "0", "0", "0", "Z">>
TEACHER_GRADER == <<"t", "e", "a", "c", "h", "e", "r">>
MANUAL_GRADER == <<"m", "a", "n", "u", "a", "l">>

\* the characters random.choices draws a fake studentId from
DIGITS == <<"0", "1", "2", "3", "4", "5", "6", "7", "8", "9">>

\* the first entries of the two name lists (80 entries each in the source)
FIRST_NAMES ==
  SubSeq(<< <<"A", "l", "i", "c", "e">>, <<"B", "o", "b">>,
            <<"C", "h", "a", "r", "l", "i", "e">>, <<"D", "i", "a", "n", "a">> >>, 1, NFirst)

LAST_NAMES ==
  SubSeq(<< <<"A", "n", "d", "e", "r", "s", "o", "n">>, <<"B", "r", "o", "w", "n">>,
            <<"C", "l", "a", "r", "k">>, <<"D", "a", "v", "i", "s">> >>, 1, NLast)

\* while attempts < 100
MaxAttempts == 100

\* random.randint(100000, 999999): the two ends and one inner value of the range
\* (no rule reads the number back)
QuizFormNumbers == {100000, 543210, 999999}

----------------------------------------------------------------------------
(* Python strings *)

Range(f) == {f[i] : i \in DOMAIN f}

\* sub in s
Contains(s, sub) ==
  \E i \in 1..(Len(s) - Len(sub) + 1) : SubSeq(s, i, i + Len(sub) - 1) = sub

\* s.startswith(p)
StartsWith(s, p) == Len(s) >= Len(p) /\ SubSeq(s, 1, Len(p)) = p

\* s.split("@")[0]
LocalPart(s) ==
  IF \E i \in 1..Len(s) : s[i] = "@"
  THEN SubSeq(s, 1, (CHOOSE i \in 1..Len(s) :
                       s[i] = "@" /\ \A j \in 1..(i - 1) : s[j] # "@") - 1)
  ELSE s

\* s.isdigit()
IsDigit(s) == s # <<>> /\ \A i \in 1..Len(s) : s[i] \in Range(DIGITS)

\* s[::-1]
reverse_student_number(student_number) ==
  [i \in 1..Len(student_number) |-> student_number[Len(student_number) + 1 - i]]

\* s.replace(old, new), old not empty
RECURSIVE Replace(_, _, _)
Replace(s, old, new) ==
  IF Len(s) < Len(old) THEN s
  ELSE IF SubSeq(s, 1, Len(old)) = old
       THEN new \o Replace(SubSeq(s, Len(old) + 1, Len(s)), old, new)
       ELSE <<s[1]>> \o Replace(Tail(s), old, new)

\* str(n) for n >= 0
RECURSIVE IntToStr(_)
IntToStr(n) ==
  IF n < 10 THEN <<DIGITS[n + 1]>>
  ELSE IntToStr(n \div 10) \o <<DIGITS[(n % 10) + 1]>>

----------------------------------------------------------------------------
(* JSON values: every value is a record of the same five fields *)

Null == [t |-> "null", n |-> 0, s |-> <<>>, k |-> <<>>, v |-> <<>>]
Num(x) == [t |-> "num", n |-> x, s |-> <<>>, k |-> <<>>, v |-> <<>>]
Bool(b) == [t |-> "bool", n |-> IF b THEN 1 ELSE 0, s |-> <<>>, k |-> <<>>, v |-> <<>>]
Str(x) == [t |-> "str", n |-> 0, s |-> x, k |-> <<>>, v |-> <<>>]
List(xs) == [t |-> "list", n |-> 0, s |-> <<>>, k |-> <<>>, v |-> xs]
\* a dict: keys in insertion order and the values at the same positions
Map(ks, vs) == [t |-> "map", n |-> 0, s |-> <<>>, k |-> ks, v |-> vs]
\* the result of an expression that raised (TypeError, AttributeError)
Raised == [t |-> "raised", n |-> 0, s |-> <<>>, k |-> <<>>, v |-> <<>>]

IsStr(x) == x.t = "str"
IsMap(x) == x.t = "map"
IsList(x) == x.t = "list"
\* usable as a dict key
Hashable(x) == x.t \in {"null", "num", "bool", "str"}

\* key in obj
HasKey(obj, key) == \E i \in 1..Len(obj.k) : obj.k[i] = key
\* obj[key]
Get(obj, key) == obj.v[CHOOSE i \in 1..Len(obj.k) : obj.k[i] = key]
\* obj[key] = value
SetKey(obj, key, value) ==
  IF HasKey(obj, key)
  THEN Map(obj.k, [i \in 1..Len(obj.k) |-> IF obj.k[i] = key THEN value ELSE obj.v[i]])
  ELSE Map(Append(obj.k, key), Append(obj.v, value))

\* mapping[key] = value on a table kept as a function
Put(mapping, key, value) ==
  [x \in DOMAIN mapping \cup {key} |-> IF x = key THEN value ELSE mapping[x]]

\* the node of doc at a path of positions
RECURSIVE At(_, _)
At(doc, path) == IF path = <<>> THEN doc ELSE At(doc.v[Head(path)], Tail(path))

\* sub in str(value): the text of a container shows its strings one by one,
\* and the keys of the documents are field names that hold none of the
\* substrings the rules look for
RECURSIVE StrContains(_, _)
StrContains(value, sub) ==
  CASE value.t = "str" -> Contains(value.s, sub)
    [] value.t \in {"list", "map"} ->
         \E i \in 1..Len(value.v) : StrContains(value.v[i], sub)
    [] OTHER -> FALSE

----------------------------------------------------------------------------
(* generate_fake_name *)

\* f"{first} {last}" at one attempt
FakeNameAt(index, attempts) ==
  FIRST_NAMES[(index % Len(FIRST_NAMES)) + 1] \o <<" ">>
    \o LAST_NAMES[((index + attempts) % Len(LAST_NAMES)) + 1]

\* generate_fake_name with the index left off the fallback name (a variant
\* the uniqueness of fake names must tell apart from the code)
GenerateWithoutSuffix(index, used) ==
  IF \E a \in 0..(MaxAttempts - 1) : FakeNameAt(index, a) \notin used
  THEN LET a == CHOOSE a \in 0..(MaxAttempts - 1) :
                  /\ FakeNameAt(index, a) \notin used
                  /\ \A b \in 0..(a - 1) : FakeNameAt(index, b) \in used
       IN [name |-> FakeNameAt(index, a), used |-> used \cup {FakeNameAt(index, a)}]
  ELSE [name |-> FakeNameAt(index, MaxAttempts - 1), used |-> used]

\* the name returned and used_names after the call
generate_fake_name(index, used) ==
  IF \E a \in 0..(MaxAttempts - 1) : FakeNameAt(index, a) \notin used
  THEN LET a == CHOOSE a \in 0..(MaxAttempts - 1) :
                  /\ FakeNameAt(index, a) \notin used
                  /\ \A b \in 0..(a - 1) : FakeNameAt(index, b) \in used
       IN [name |-> FakeNameAt(index, a), used |-> used \cup {FakeNameAt(index, a)}]
  ELSE [name |-> FakeNameAt(index, MaxAttempts - 1) \o IntToStr(index), used |-> used]

----------------------------------------------------------------------------
(* First pass: collect_identifiers at one dict node.  The tables travel in a  *)
(* record c = [nm, snm, used, raised]; raised is set when a statement raises *)
(* and the statements after it are skipped.                                  *)

\* "@gapps.yrdsb.ca" in email and email.split("@")[0].isdigit()
StudentEmailTest(email) ==
  CASE email.t = "str" ->
         IF Contains(email.s, STUDENT_DOMAIN) /\ IsDigit(LocalPart(email.s))
         THEN "yes" ELSE "no"
    [] email.t = "list" ->
         \* membership is true only of an element equal to the suffix, and a
         \* list has no split
         IF \E i \in 1..Len(email.v) : email.v[i] = Str(STUDENT_DOMAIN)
         THEN "raised" ELSE "no"
    [] email.t = "map" ->
         IF HasKey(email, "@gapps.yrdsb.ca") THEN "raised" ELSE "no"
    [] OTHER -> "raised"   \* None, a number, a boolean: not iterable

\* if student_number not in student_number_mapping: ...
CollectNumber(student_number, c) ==
  IF student_number \in DOMAIN c.snm THEN c
  ELSE [c EXCEPT !.snm = Put(c.snm, student_number,
                             reverse_student_number(student_number))]

\* if name not in name_mapping and name != "Stewart Chan": ...
CollectName(name, c) ==
  IF ~Hashable(name) THEN [c EXCEPT !.raised = TRUE]
  ELSE IF name \notin DOMAIN c.nm /\ name # Str(TEACHER_NAME)
       THEN LET g == generate_fake_name(Cardinality(DOMAIN c.nm), c.used)
            IN [c EXCEPT !.nm = Put(c.nm, name, Str(g.name)), !.used = g.used]
       ELSE c

\* if obj.get("email") == "stewart.chan@gapps.yrdsb.ca": ...
CollectTeacher(obj, c) ==
  IF HasKey(obj, "email") /\ Get(obj, "email") = Str(TEACHER_EMAIL)
  THEN [c EXCEPT !.nm = Put(c.nm, Str(TEACHER_NAME), Str(TEACHER_PLACEHOLDER_NAME))]
  ELSE c

\* if nameKey in obj and emailKey in obj: ...
CollectStudent(obj, nameKey, emailKey, c) ==
  IF c.raised \/ ~(HasKey(obj, nameKey) /\ HasKey(obj, emailKey)) THEN c
  ELSE LET email == Get(obj, emailKey)
           name == Get(obj, nameKey)
           test == StudentEmailTest(email)
       IN CASE test = "raised" -> [c EXCEPT !.raised = TRUE]
            [] test = "no" -> c
            [] OTHER ->
                 LET c1 == CollectName(name, c)
                 IN IF c1.raised THEN c1
                    ELSE CollectNumber(LocalPart(email.s), c1)

\* if "email" in obj: ...
CollectEmail(obj, c) ==
  IF c.raised \/ ~HasKey(obj, "email") THEN c
  ELSE LET email == Get(obj, "email")
           test == StudentEmailTest(email)
       IN CASE test = "raised" -> [c EXCEPT !.raised = TRUE]
            [] test = "no" -> c
            [] OTHER -> CollectNumber(LocalPart(email.s), c)

\* the statements of one dict node before the studentId rule
collect_identifiers(obj, c) ==
  CollectEmail(obj,
    CollectStudent(obj, "studentName", "studentEmail",
      CollectStudent(obj, "name", "email",
        CollectTeacher(obj, c))))

\* random.choices with k one too large (a variant the length of fake ids
\* must tell apart from the code)
FakeIdsOneLonger(length) == [1..(length + 1) -> Range(DIGITS)]

\* ''.join(random.choices('0123456789', k=len(student_id))): every outcome
FakeIds(length) == [1..length -> Range(DIGITS)]

\* if "studentId" in obj: ... : the outcomes [idm, raised]
CollectStudentId(obj, idm) ==
  IF ~HasKey(obj, "studentId") THEN {[idm |-> idm, raised |-> FALSE]}
  ELSE LET student_id == Get(obj, "studentId")
       IN IF ~Hashable(student_id) THEN {[idm |-> idm, raised |-> TRUE]}
          ELSE IF student_id \in DOMAIN idm THEN {[idm |-> idm, raised |-> FALSE]}
          ELSE IF ~IsStr(student_id) THEN {[idm |-> idm, raised |-> TRUE]}   \* len() raises
          ELSE {[idm |-> Put(idm, student_id, Str(fake_id)), raised |-> FALSE] :
                   fake_id \in FakeIds(Len(student_id.s))}

\* the dict nodes of obj in the order the recursion of collect_identifiers
\* reaches them, as paths
RECURSIVE DictPaths(_, _)
DictPaths(obj, path) ==
  LET RECURSIVE Children(_)
      Children(i) ==
        IF i > Len(obj.v) THEN <<>>
        ELSE DictPaths(obj.v[i], Append(path, i)) \o Children(i + 1)
  IN CASE obj.t = "map" -> <<path>> \o Children(1)
       [] obj.t = "list" -> Children(1)
       [] OTHER -> <<>>

----------------------------------------------------------------------------
(* Second pass: replace_identifiers.  M = [nm, snm, idm, rnd] holds the    *)
(* three tables and, per quizData position, the number randint returns.    *)

\* rule 2, the branch taken when "@gapps.yrdsb.ca" in str(value)
RewriteStudentEmail(value, M) ==
  IF ~IsStr(value) THEN Raised   \* value.split on a list or dict
  ELSE LET student_number == LocalPart(value.s)
       IN IF IsDigit(student_number)
          THEN IF student_number \in DOMAIN M.snm
               THEN Str(M.snm[student_number] \o STUDENT_DOMAIN)
               ELSE Str(reverse_student_number(student_number) \o STUDENT_DOMAIN)
          ELSE value

\* rule 5: the URL-bearing keys
RewriteUrl(value) ==
  IF StrContains(value, CLASSROOM_HOST) THEN Str(CLASSROOM_PLACEHOLDER)
  ELSE IF StrContains(value, FORMS_HOST) THEN Str(FORMS_PLACEHOLDER)
  ELSE IF StrContains(value, SHEETS_HOST) THEN Str(SHEETS_PLACEHOLDER)
  ELSE IF StrContains(value, USERCONTENT_HOST)
          \/ (IsStr(value) /\ StartsWith(value.s, THUMB_PREFIX))
       THEN Str(CDN_PLACEHOLDER)
  ELSE value

\* quiz_data[key] = value if key is absent
Default(quiz_data, key, value) ==
  IF quiz_data.t = "raised" \/ HasKey(quiz_data, key) THEN quiz_data
  ELSE SetKey(quiz_data, key, value)

\* len(quiz_data.get("questions", []))
QuestionCount(quiz_data) ==
  IF ~HasKey(quiz_data, "questions") THEN Num(0)
  ELSE LET q == Get(quiz_data, "questions")
       IN CASE q.t = "list" -> Num(Len(q.v))
            [] q.t = "map" -> Num(Len(q.k))
            [] q.t = "str" -> Num(Len(q.s))
            [] OTHER -> Raised

\* rule 6: quiz_data = dict(value) and the eleven defaults
QuizBackfill(value, number) ==
  LET q1 == Default(value, "formId", Str(QUIZ_FORM_PREFIX \o IntToStr(number)))
      q2 == Default(q1, "formUrl", Str(FORMS_PLACEHOLDER))
      q3 == Default(q2, "title", Str(SAMPLE_QUIZ))
      q4 == Default(q3, "isQuiz", Bool(TRUE))
      q5 == Default(q4, "collectEmailAddresses", Bool(TRUE))
      q6 == Default(q5, "allowResponseEditing", Bool(FALSE))
      q7 == IF HasKey(q6, "totalQuestions") THEN q6
            ELSE IF QuestionCount(q6) = Raised THEN Raised
            ELSE SetKey(q6, "totalQuestions", QuestionCount(q6))
      q8 == Default(q7, "totalPoints", Num(100))
      q9 == Default(q8, "autoGradableQuestions", Num(0))
      q10 == Default(q9, "manualGradingRequired", Bool(TRUE))
  IN Default(q10, "requireSignIn", Bool(TRUE))

\* rule 7: value.replace("@gapps.yrdsb.ca", "@example.com")
RewriteCourseGroupEmail(value) ==
  IF ~IsStr(value) THEN Raised
  ELSE Str(Replace(value.s, STUDENT_DOMAIN, EXAMPLE_DOMAIN))

\* the repair with the studentName test left out (a variant the key sets of
\* the output must tell apart from the code)
RepairAnyStudentEmail(new_obj) ==
  IF HasKey(new_obj, "studentEmail")
  THEN LET o1 == IF HasKey(new_obj, "updatedAt") THEN new_obj
                 ELSE SetKey(new_obj, "updatedAt",
                             IF HasKey(new_obj, "submittedAt")
                             THEN Get(new_obj, "submittedAt")
                             ELSE Str(DEFAULT_UPDATED_AT))
           o2 == IF HasKey(o1, "attachments") THEN o1
                 ELSE SetKey(o1, "attachments", List(<<>>))
       IN IF /\ HasKey(o2, "grade")
             /\ IsMap(Get(o2, "grade"))
             /\ HasKey(Get(o2, "grade"), "gradedBy")
             /\ Get(Get(o2, "grade"), "gradedBy") = Str(TEACHER_GRADER)
          THEN SetKey(o2, "grade",
                      SetKey(Get(o2, "grade"), "gradedBy", Str(MANUAL_GRADER)))
          ELSE o2
  ELSE new_obj

\* the repair with updatedAt always the default timestamp (a variant the
\* repaired values must tell apart from the code)
RepairIgnoringSubmittedAt(new_obj) ==
  IF HasKey(new_obj, "studentEmail") /\ HasKey(new_obj, "studentName")
  THEN LET o1 == IF HasKey(new_obj, "updatedAt") THEN new_obj
                 ELSE SetKey(new_obj, "updatedAt", Str(DEFAULT_UPDATED_AT))
           o2 == IF HasKey(o1, "attachments") THEN o1
                 ELSE SetKey(o1, "attachments", List(<<>>))
       IN IF /\ HasKey(o2, "grade")
             /\ IsMap(Get(o2, "grade"))
             /\ HasKey(Get(o2, "grade"), "gradedBy")
             /\ Get(Get(o2, "grade"), "gradedBy") = Str(TEACHER_GRADER)
          THEN SetKey(o2, "grade",
                      SetKey(Get(o2, "grade"), "gradedBy", Str(MANUAL_GRADER)))
          ELSE o2
  ELSE new_obj

\* the statements after the loop over the keys of a dict
RepairSubmission(new_obj) ==
  IF HasKey(new_obj, "studentEmail") /\ HasKey(new_obj, "studentName")
  THEN LET o1 == IF HasKey(new_obj, "updatedAt") THEN new_obj
                 ELSE SetKey(new_obj, "updatedAt",
                             IF HasKey(new_obj, "submittedAt")
                             THEN Get(new_obj, "submittedAt")
                             ELSE Str(DEFAULT_UPDATED_AT))
           o2 == IF HasKey(o1, "attachments") THEN o1
                 ELSE SetKey(o1, "attachments", List(<<>>))
       IN IF /\ HasKey(o2, "grade")
             /\ IsMap(Get(o2, "grade"))
             /\ HasKey(Get(o2, "grade"), "gradedBy")
             /\ Get(Get(o2, "grade"), "gradedBy") = Str(TEACHER_GRADER)
          THEN SetKey(o2, "grade",
                      SetKey(Get(o2, "grade"), "gradedBy", Str(MANUAL_GRADER)))
          ELSE o2
  ELSE new_obj

\* [replace_identifiers(item) for item in obj]
RebuildList(items) ==
  IF \E i \in 1..Len(items) : items[i] = Raised THEN Raised ELSE List(items)

RECURSIVE replace_identifiers(_, _, _)

\* the branch of the if / elif chain that one key of a dict takes (first match
\* wins): 1 teacher email, 2 student email, 3 name, 4 studentId, 5 URL,
\* 6 quizData, 7 courseGroupEmail, 8 recursion, 9 copy
RuleFor(key, value, M) ==
  IF key \in {"email", "teacherEmail"} /\ value = Str(TEACHER_EMAIL) THEN 1
  ELSE IF key \in {"email", "studentEmail"} /\ StrContains(value, STUDENT_DOMAIN) THEN 2
  ELSE IF key \in {"name", "displayName", "studentName"} /\ IsStr(value)
          /\ value \in DOMAIN M.nm THEN 3
  \* value in student_id_mapping raises on a list or dict: the branch is entered
  \* and its result is the exception
  ELSE IF key = "studentId" /\ (~Hashable(value) \/ value \in DOMAIN M.idm) THEN 4
  ELSE IF key \in {"alternateLink", "formUrl", "responseUrl", "thumbnailUrl", "photoUrl"}
       THEN 5
  ELSE IF key = "quizData" /\ IsMap(value) THEN 6
  ELSE IF key = "courseGroupEmail" THEN 7
  ELSE IF IsMap(value) \/ IsList(value) THEN 8
  ELSE 9

\* the value stored in new_obj[key]
RewriteEntry(key, value, path, M) ==
  LET rule == RuleFor(key, value, M)
  IN CASE rule = 1 -> Str(TEACHER_PLACEHOLDER_EMAIL)
       [] rule = 2 -> RewriteStudentEmail(value, M)
       [] rule = 3 -> M.nm[value]
       [] rule = 4 -> IF Hashable(value) THEN M.idm[value] ELSE Raised
       [] rule = 5 -> RewriteUrl(value)
       [] rule = 6 -> QuizBackfill(value, M.rnd[path])
       [] rule = 7 -> RewriteCourseGroupEmail(value)
       [] rule = 8 -> replace_identifiers(value, path, M)
       [] OTHER -> value

replace_identifiers(obj, path, M) ==
  CASE obj.t = "map" ->
         LET vs == [i \in 1..Len(obj.v) |->
                      RewriteEntry(obj.k[i], obj.v[i], Append(path, i), M)]
         IN IF \E i \in 1..Len(vs) : vs[i] = Raised THEN Raised
            ELSE RepairSubmission(Map(obj.k, vs))
    [] obj.t = "list" ->
         RebuildList([i \in 1..Len(obj.v) |->
                        replace_identifiers(obj.v[i], Append(path, i), M)])
    [] OTHER -> obj

\* the dict nodes replace_identifiers is called on (the maps it rebuilds), as
\* paths: the root, the items of a list it is called on, and the values of
\* the keys that take the recursion branch
RECURSIVE RebuiltPaths(_, _, _)
RebuiltPaths(obj, path, M) ==
  CASE obj.t = "map" ->
         {path} \cup UNION { IF RuleFor(obj.k[i], obj.v[i], M) = 8
                              THEN RebuiltPaths(obj.v[i], Append(path, i), M)
                              ELSE {} : i \in 1..Len(obj.v) }
    [] obj.t = "list" ->
         UNION { RebuiltPaths(obj.v[i], Append(path, i), M) : i \in 1..Len(obj.v) }
    [] OTHER -> {}

\* the positions where the quizData branch calls randint
QuizPaths(obj, M) ==
  UNION { { Append(p, i) : i \in { j \in 1..Len(At(obj, p).v) :
                                     /\ RuleFor(At(obj, p).k[j], At(obj, p).v[j], M) = 6
                                     /\ ~HasKey(At(obj, p).v[j], "formId") } } :
          p \in RebuiltPaths(obj, <<>>, M) }

----------------------------------------------------------------------------
(* The documents of the model: {"teacherEmail": ..., "items": [...]} with   *)
(* up to MaxItems records drawn from Items.                                 *)

Student(local) == Str(local \o STUDENT_DOMAIN)
Al == Str(<<"A", "l">>)
Bo == Str(<<"B", "o">>)
TeacherGrade == Map(<<"gradedBy">>, <<Str(TEACHER_GRADER)>>)

Items ==
  { \* roster records
    Map(<<"name", "email">>, <<Al, Student(<<"1", "2">>)>>),
    Map(<<"email", "name">>, <<Student(<<"2", "1">>), Bo>>),
    Map(<<"name", "email", "displayName">>,
        <<Str(TEACHER_NAME), Str(TEACHER_EMAIL), Str(TEST_TEACHER)>>),
    Map(<<"name", "email">>, <<Str(TEACHER_NAME), Student(<<"1", "2">>)>>),
    Map(<<"email">>, <<Student(<<"1", "2">>)>>),
    Map(<<"email", "responseUrl", "courseGroupEmail">>,
        <<Student(<<"a", "b">>), Str(SHEETS_HOST), Str(<<"c">> \o STUDENT_DOMAIN)>>),
    Map(<<"email", "studentId", "displayName">>,
        <<Str(<<"1", "2">> \o STUDENT_DOMAIN \o <<".", "x">>), Str(<<"x">>), Al>>),
    \* submission records
    Map(<<"studentName", "studentEmail">>, <<Al, Student(<<"1", "2">>)>>),
    Map(<<"studentEmail", "studentName", "submittedAt", "grade">>,
        <<Student(<<"1", "2">>), Bo, Str(<<"t", "1">>), TeacherGrade>>),
    Map(<<"studentName", "studentEmail", "updatedAt", "attachments", "grade">>,
        <<Bo, Student(<<"3">>), Str(<<"u", "1">>), List(<<Num(1)>>),
          Map(<<"gradedBy">>, <<Str(<<"a", "i">>)>>)>>),
    Map(<<"studentName", "studentEmail", "grade">>,
        <<Al, Student(<<"a", "b">>), TeacherGrade>>),
    Map(<<"name", "email", "studentEmail">>,
        <<Num(5), Student(<<"3">>), Student(<<"1", "2">>)>>),
    Map(<<"submissions">>,
        <<List(<<Map(<<"studentName", "studentEmail", "studentId">>,
                     <<Bo, Student(<<"2", "1">>), Str(<<"7">>)>>)>>)>>),
    \* quiz data, URLs, grades outside a submission
    Map(<<"quizData">>,
        <<Map(<<"questions", "email", "name", "studentId">>,
              <<List(<<Num(1), Num(2), Num(3)>>), Student(<<"1", "2">>), Al,
                Str(<<"7">>)>>)>>),
    Map(<<"studentId", "grade", "quizData">>,
        <<Str(<<>>), TeacherGrade, Map(<<"formId">>, <<Str(<<"f">>)>>)>>),
    Map(<<"formUrl", "alternateLink">>,
        <<Str(FORMS_HOST \o <<"/", "1">>),
          Map(<<"studentEmail", "studentName">>, <<Student(<<"1", "2">>), Al>>)>>),
    Map(<<"thumbnailUrl", "photoUrl", "quizData">>,
        <<List(<<Str(CLASSROOM_HOST)>>), Str(THUMB_PREFIX \o <<"3">>), Str(<<"q">>)>>),
    \* wrongly typed fields
    Map(<<"email">>, <<Null>>),
    Map(<<"email">>, <<List(<<Student(<<"1", "2">>)>>)>>),
    Map(<<"name", "email">>, <<List(<<Al>>), Student(<<"1", "2">>)>>),
    Map(<<"studentId">>, <<Num(5)>>),
    Map(<<"courseGroupEmail">>, <<Null>>),
    Map(<<"quizData">>, <<Map(<<"questions">>, <<Null>>)>>)
  }

Documents ==
  { Map(<<"teacherEmail", "items">>, <<Str(TEACHER_EMAIL), List(items)>>) :
      items \in UNION {[1..n -> Items] : n \in 0..MaxItems} }

----------------------------------------------------------------------------
(* anonymize_json as a state machine *)

\* name_mapping as pre-populated at the top of anonymize_json
InitialNames ==
  Put(Put(<<>>, Str(TEACHER_NAME), Str(TEACHER_PLACEHOLDER_NAME)),
      Str(TEST_TEACHER), Str(TEACHER_PLACEHOLDER_NAME))

\* the state on entry to anonymize_json(d)
Enter(d) ==
  /\ data' = d
  /\ queue' = DictPaths(d, <<>>)
  /\ ci' = 1
  /\ pc' = IF DictPaths(d, <<>>) = <<>> THEN "rewrite" ELSE "collect"
  /\ name_mapping' = InitialNames
  /\ student_number_mapping' = <<>>
  /\ student_id_mapping' = <<>>
  /\ used_names' = {}
  /\ out' = Null

Init ==
  /\ data \in Documents
  /\ queue = DictPaths(data, <<>>)
  /\ ci = 1
  /\ pc = "collect"
  /\ name_mapping = InitialNames
  /\ student_number_mapping = <<>>
  /\ student_id_mapping = <<>>
  /\ used_names = {}
  /\ out = Null
  /\ run = 1
  /\ out1 = Null

\* collect_identifiers at the next dict node of the recursion
CollectStep ==
  /\ pc = "collect"
  /\ LET obj == At(data, queue[ci])
         c == collect_identifiers(obj, [nm |-> name_mapping,
                                        snm |-> student_number_mapping,
                                        used |-> used_names,
                                        raised |-> FALSE])
     IN /\ name_mapping' = c.nm
        /\ student_number_mapping' = c.snm
        /\ used_names' = c.used
        /\ IF c.raised
           THEN pc' = "error" /\ UNCHANGED <<student_id_mapping, ci>>
           ELSE \E r \in CollectStudentId(obj, student_id_mapping) :
                  /\ student_id_mapping' = r.idm
                  /\ IF r.raised
                     THEN pc' = "error" /\ UNCHANGED ci
                     ELSE /\ ci' = ci + 1
                          /\ pc' = IF ci = Len(queue) THEN "rewrite" ELSE "collect"
  /\ UNCHANGED <<data, queue, out, run, out1>>

\* the tables as the second pass reads them
Tables ==
  [nm |-> name_mapping, snm |-> student_number_mapping, idm |-> student_id_mapping,
   rnd |-> <<>>]

\* return replace_identifiers(data)
RewriteStep ==
  /\ pc = "rewrite"
  /\ \E rnd \in [QuizPaths(data, Tables) -> QuizFormNumbers] :
       LET result == replace_identifiers(data, <<>>, [Tables EXCEPT !.rnd = rnd])
       IN IF result = Raised
          THEN pc' = "error" /\ UNCHANGED out
          ELSE pc' = "done" /\ out' = result
  /\ UNCHANGED <<data, queue, ci, name_mapping, student_number_mapping,
                 student_id_mapping, used_names, run, out1>>

\* the pipeline is run again on the document it returned
Rerun ==
  /\ pc = "done"
  /\ run = 1
  /\ run' = 2
  /\ out1' = out
  /\ Enter(out)

\* one call of anonymize_json
Next == CollectStep \/ RewriteStep

Spec == Init /\ [][Next]_vars

\* anonymize_json, and then anonymize_json on what it returned
NextRerun == CollectStep \/ RewriteStep \/ Rerun

SpecRerun == Init /\ [][NextRerun]_vars

----------------------------------------------------------------------------
(* Vocabulary of the properties *)

Front(p) == SubSeq(p, 1, Len(p) - 1)

\* the paths of all nodes of a document
RECURSIVE AllPaths(_, _)
AllPaths(obj, path) ==
  {path} \cup UNION { AllPaths(obj.v[i], Append(path, i)) : i \in 1..Len(obj.v) }

\* doc has a node at path
RECURSIVE HasPath(_, _)
HasPath(doc, path) ==
  \/ path = <<>>
  \/ /\ Head(path) \in 1..Len(doc.v)
     /\ HasPath(doc.v[Head(path)], Tail(path))

\* the key a node sits under ("" for the root and for list items)
KeyOf(doc, p) ==
  IF p # <<>> /\ IsMap(At(doc, Front(p))) THEN At(doc, Front(p)).k[p[Len(p)]] ELSE ""

\* the values of doc held under one of the keys
KeyedPaths(doc, keys) == { p \in AllPaths(doc, <<>>) : KeyOf(doc, p) \in keys }

\* the values of email / studentEmail that carry a student number
StudentNumberPaths(doc) ==
  { p \in KeyedPaths(doc, {"email", "studentEmail"}) :
      /\ IsStr(At(doc, p))
      /\ Contains(At(doc, p).s, STUDENT_DOMAIN)
      /\ IsDigit(LocalPart(At(doc, p).s)) }

\* the nodes that are a dict (a list) in the input and in the output
MapPathsBoth ==
  { p \in AllPaths(data, <<>>) : IsMap(At(data, p)) /\ HasPath(out, p) /\ IsMap(At(out, p)) }
ListPathsBoth ==
  { p \in AllPaths(data, <<>>) : IsList(At(data, p)) /\ HasPath(out, p) /\ IsList(At(out, p)) }

Gained(p) == Range(At(out, p).k) \ Range(At(data, p).k)
Lost(p) == Range(At(data, p).k) \ Range(At(out, p).k)
SubmissionShaped(obj) == HasKey(obj, "studentEmail") /\ HasKey(obj, "studentName")
GradedByTeacher(obj) ==
  /\ HasKey(obj, "grade")
  /\ IsMap(Get(obj, "grade"))
  /\ HasKey(Get(obj, "grade"), "gradedBy")
  /\ Get(Get(obj, "grade"), "gradedBy") = Str(TEACHER_GRADER)

QuizKeys ==
  {"formId", "formUrl", "title", "isQuiz", "collectEmailAddresses",
   "allowResponseEditing", "totalQuestions", "totalPoints",
   "autoGradableQuestions", "manualGradingRequired", "requireSignIn"}

----------------------------------------------------------------------------
(* C1 *)

\* C1: when anonymize_json has returned, any two email / studentEmail values
\* of the input that carry the same student number have the same local part
\* in the output, wherever in the tree they are.
C1_SameNumberSameReplacement ==
  pc = "done" =>
    \A p, q \in StudentNumberPaths(data) :
      ( /\ LocalPart(At(data, p).s) = LocalPart(At(data, q).s)
        /\ HasPath(out, p)
        /\ HasPath(out, q) )
      => /\ IsStr(At(out, p))
         /\ IsStr(At(out, q))
         /\ LocalPart(At(out, p).s) = LocalPart(At(out, q).s)

----------------------------------------------------------------------------
(* C2 *)

\* the string values under the email and name keys
IdentityPaths(doc) ==
  { p \in KeyedPaths(doc, {"email", "teacherEmail", "studentEmail",
                           "name", "displayName", "studentName"}) : IsStr(At(doc, p)) }

\* C2: when the pipeline has been run on its own output, every email and name
\* value of the first output is found unchanged in the second output.
C2_RerunKeepsPlaceholders ==
  (run = 2 /\ pc = "done") =>
    \A p \in IdentityPaths(out1) : HasPath(out, p) /\ At(out, p) = At(out1, p)

----------------------------------------------------------------------------
(* C3 *)

\* C3 as stated: in the output every dict keeps its keys and gains at most
\* updatedAt and attachments, those only on submission-shaped dicts, and every
\* list keeps its length.
C3_KeysOnlyGainSubmissionBackfill ==
  pc = "done" =>
    /\ \A p \in MapPathsBoth :
         /\ Lost(p) = {}
         /\ Gained(p) \subseteq (IF SubmissionShaped(At(data, p))
                                 THEN {"updatedAt", "attachments"} ELSE {})
    /\ \A p \in ListPathsBoth : Len(At(out, p).v) = Len(At(data, p).v)

\* C3 amended: in the output every dict keeps its keys and gains at most
\* updatedAt and attachments, those only on submission-shaped dicts, and at
\* most the eleven quiz defaults, those only on a dict that is the value of a
\* quizData key; no other dict gains or loses a key, and every list keeps its
\* length.
C3_StructuralCongruence ==
  pc = "done" =>
    /\ \A p \in MapPathsBoth :
         /\ Lost(p) = {}
         /\ Gained(p) \subseteq
              (IF SubmissionShaped(At(data, p)) THEN {"updatedAt", "attachments"} ELSE {})
              \cup (IF KeyOf(data, p) = "quizData" THEN QuizKeys ELSE {})
    /\ \A p \in ListPathsBoth : Len(At(out, p).v) = Len(At(data, p).v)

\* a returned document in which a quizData dict took all eleven defaults and
\* a submission took both backfilled keys
C3_Witness ==
  /\ pc = "done"
  /\ \E p, q \in MapPathsBoth :
       /\ Gained(p) = QuizKeys
       /\ SubmissionShaped(At(data, q))
       /\ Gained(q) = {"updatedAt", "attachments"}

----------------------------------------------------------------------------
(* C4 *)

\* C4: no run ends in an exception, whatever the types of the targeted fields.
C4_NoErrorRaised == pc # "error"

----------------------------------------------------------------------------
(* C5 *)

TeacherSpellings == {Str(TEACHER_NAME), Str(TEST_TEACHER)}

\* C5 as stated: no two distinct real names of name_mapping share a fake name.
C5_NoTwoNamesShareFake ==
  \A a, b \in DOMAIN name_mapping : a # b => name_mapping[a] # name_mapping[b]

\* a name once recorded keeps its fake name
NameRecordKept ==
  \A a \in DOMAIN name_mapping :
    a \in DOMAIN name_mapping' /\ name_mapping'[a] = name_mapping[a]

\* no two distinct names other than the two pre-populated teacher spellings
\* share a fake name, and none of them shares the teacher's placeholder
StudentFakesDistinct ==
  \A a \in DOMAIN name_mapping \ TeacherSpellings :
    /\ name_mapping[a] # Str(TEACHER_PLACEHOLDER_NAME)
    /\ \A b \in DOMAIN name_mapping \ TeacherSpellings :
         a # b => name_mapping[a] # name_mapping[b]

\* C5 amended: in every state of a run each real name of name_mapping has one
\* fake name that never changes once recorded, and no two distinct real names
\* share a fake name, except "Stewart Chan" and "Test Teacher", which are both
\* pre-populated with "Dev CodePet"; the names of the numeric-suffix fallback
\* are distinct from every other allocated name.
C5_NameMapping == [][NameRecordKept]_vars /\ []StudentFakesDistinct

\* two student names are recorded and one of them got its fake name from the
\* numeric-suffix fallback (the fallback does not put the name in used_names)
C5_Witness ==
  \E a, b \in DOMAIN name_mapping \ TeacherSpellings :
    /\ a # b
    /\ name_mapping[a].s \in used_names
    /\ name_mapping[b].s \notin used_names

----------------------------------------------------------------------------
(* C6 *)

\* C6: when anonymize_json has returned, every email / studentEmail value
\* that is digits followed by "@gapps.yrdsb.ca" has, in the output, the
\* reversal of its digits as local part.
C6_LocalPartReversed ==
  pc = "done" =>
    \A p \in StudentNumberPaths(data) :
      ( /\ At(data, p).s = LocalPart(At(data, p).s) \o STUDENT_DOMAIN
        /\ HasPath(out, p) )
      => /\ IsStr(At(out, p))
         /\ LocalPart(At(out, p).s) = reverse_student_number(LocalPart(At(data, p).s))

\* Lemma: at the dicts the second pass rebuilds the reversal does hold, with
\* or without a recorded number: every email / studentEmail string carrying a
\* student number becomes the reversed number followed by "@gapps.yrdsb.ca".
RebuiltNumbersReversed ==
  pc = "done" =>
    \A p \in StudentNumberPaths(data) :
      Front(p) \in RebuiltPaths(data, <<>>, Tables)
      => At(out, p) = Str(reverse_student_number(LocalPart(At(data, p).s))
                          \o STUDENT_DOMAIN)

----------------------------------------------------------------------------
(* C7 *)

\* the string values under a studentId key
StudentIdPaths(doc) == { p \in KeyedPaths(doc, {"studentId"}) : IsStr(At(doc, p)) }

\* once collection is over every string studentId of the input has a fake id
\* of its length made of digits, and the studentId keys of the dicts the
\* second pass rebuilds hold that fake id in the output
StudentIdsMapped ==
  pc \in {"rewrite", "done"} =>
    \A p \in StudentIdPaths(data) :
      LET student_id == At(data, p)
      IN /\ student_id \in DOMAIN student_id_mapping
         /\ IsStr(student_id_mapping[student_id])
         /\ Len(student_id_mapping[student_id].s) = Len(student_id.s)
         /\ \A i \in 1..Len(student_id_mapping[student_id].s) :
              student_id_mapping[student_id].s[i] \in Range(DIGITS)
         /\ (pc = "done" /\ Front(p) \in RebuiltPaths(data, <<>>, Tables))
            => At(out, p) = student_id_mapping[student_id]

\* a studentId once recorded keeps its fake id
StudentIdRecordKept ==
  \A x \in DOMAIN student_id_mapping :
    x \in DOMAIN student_id_mapping' /\ student_id_mapping'[x] = student_id_mapping[x]

\* C7: every string studentId of the input has exactly one fake id for the
\* whole run, of the same length and made of digits only, and every studentId
\* key the second pass rewrites receives it.
C7_StudentIdMapping == [][StudentIdRecordKept]_vars /\ []StudentIdsMapped

\* a returned document in which a non-empty studentId was rewritten, and a
\* second studentId with the same value sits where the second pass does not go
C7_Witness ==
  /\ pc = "done"
  /\ \E p \in StudentIdPaths(data) :
       /\ Len(At(data, p).s) > 0
       /\ Front(p) \in RebuiltPaths(data, <<>>, Tables)
       /\ At(out, p) = student_id_mapping[At(data, p)]
       /\ At(out, p) # At(data, p)

----------------------------------------------------------------------------
(* C8 *)

\* the dicts the second pass rebuilt, once it has returned
Rebuilt == RebuiltPaths(data, <<>>, Tables)

\* C8: when anonymize_json has returned, every rebuilt dict with studentEmail
\* and studentName has updatedAt (its own if it had one, else its submittedAt,
\* else the default timestamp), has attachments (its own, else an empty
\* list) and has grade.gradedBy "manual" where it was "teacher"; a rebuilt
\* dict without one of the two keys gains neither key and keeps gradedBy.
C8_SubmissionRepair ==
  pc = "done" =>
    \A p \in Rebuilt :
      LET old == At(data, p)
          new == At(out, p)
      IN IF SubmissionShaped(old)
         THEN /\ HasKey(new, "updatedAt")
              /\ Get(new, "updatedAt") =
                   (IF HasKey(old, "updatedAt") THEN Get(old, "updatedAt")
                    ELSE IF HasKey(old, "submittedAt") THEN Get(new, "submittedAt")
                    ELSE Str(DEFAULT_UPDATED_AT))
              /\ HasKey(new, "attachments")
              /\ Get(new, "attachments") =
                   (IF HasKey(old, "attachments") THEN Get(old, "attachments")
                    ELSE List(<<>>))
              /\ GradedByTeacher(old) =>
                   Get(Get(new, "grade"), "gradedBy") = Str(MANUAL_GRADER)
         ELSE /\ HasKey(new, "updatedAt") <=> HasKey(old, "updatedAt")
              /\ HasKey(new, "attachments") <=> HasKey(old, "attachments")
              /\ GradedByTeacher(old) => GradedByTeacher(new)

\* a returned document with a submission graded by "teacher" that had
\* submittedAt and no updatedAt, and a dict graded by "teacher" that is no
\* submission
C8_Witness ==
  /\ pc = "done"
  /\ \E p, q \in Rebuilt :
       /\ SubmissionShaped(At(data, p))
       /\ ~HasKey(At(data, p), "updatedAt")
       /\ HasKey(At(data, p), "submittedAt")
       /\ GradedByTeacher(At(data, p))
       /\ ~SubmissionShaped(At(data, q))
       /\ GradedByTeacher(At(data, q))

----------------------------------------------------------------------------
(* C9 *)

\* C9: when anonymize_json has returned, at every dict the first pass visited
\* no collected value is left: a student email whose number is in
\* student_number_mapping, a name in name_mapping and a studentId in
\* student_id_mapping are each replaced by the mapped value.
C9_EveryCollectedValueReplaced ==
  pc = "done" =>
    \A d \in Range(queue) : \A i \in 1..Len(At(data, d).k) :
      LET key == At(data, d).k[i]
          value == At(data, d).v[i]
          p == Append(d, i)
      IN HasPath(out, p) =>
           /\ ( /\ p \in StudentNumberPaths(data)
                /\ LocalPart(value.s) \in DOMAIN student_number_mapping )
              => At(out, p) = Str(student_number_mapping[LocalPart(value.s)]
                                  \o STUDENT_DOMAIN)
           /\ ( /\ key \in {"name", "displayName", "studentName"}
                /\ IsStr(value)
                /\ value \in DOMAIN name_mapping )
              => At(out, p) = name_mapping[value]
           /\ ( /\ key = "studentId"
                /\ value \in DOMAIN student_id_mapping )
              => At(out, p) = student_id_mapping[value]

----------------------------------------------------------------------------
(* C10 *)

\* the "@" that ends the local part and the text after it
AfterLocalPart(s) == SubSeq(s, Len(LocalPart(s)) + 1, Len(s))

\* C10: when anonymize_json has returned, every email / studentEmail string
\* of a rebuilt dict that contains "@gapps.yrdsb.ca" and is not the teacher
\* address under email is, if its local part is all digits, the reversed
\* local part followed by the "@" and the text after it of the input, and is
\* unchanged otherwise.
C10_RejoinsOriginalDomain ==
  pc = "done" =>
    \A d \in Rebuilt : \A i \in 1..Len(At(data, d).k) :
      LET key == At(data, d).k[i]
          value == At(data, d).v[i]
          new == At(out, Append(d, i))
      IN ( /\ key \in {"email", "studentEmail"}
           /\ IsStr(value)
           /\ Contains(value.s, STUDENT_DOMAIN)
           /\ ~(key = "email" /\ value = Str(TEACHER_EMAIL)) )
         => IF IsDigit(LocalPart(value.s))
            THEN new = Str(reverse_student_number(LocalPart(value.s))
                           \o AfterLocalPart(value.s))
            ELSE new = value

====
